---- MODULE Spec2Model ----
(***************************************************************************)
(* A model of vultur-sso-client: the identity gateway client, the          *)
(* authorization guards (withAuth / withPermission), the client-side       *)
(* permission resolver and the permission queries of usePermissionCheck.   *)
(*                                                                         *)
(* Strings the code inspects character by character (the Authorization     *)
(* header, role names) are sequences of one-character strings; strings it  *)
(* only compares for equality (scope ids, actions, error codes) are TLA+   *)
(* strings.                                                                *)
(***************************************************************************)
EXTENDS Integers, Sequences, FiniteSets, TLC

VARIABLES
    gw,           \* the last call made on a VulturIdentServerClient and its outcome
    call,         \* the guarded request being served by withAuth / withPermission
    globalConfig, \* config.ts: the process-wide configuration (or none)
    query,        \* the 'vultur-permissions' query of useVulturPermissions
    lastQuery,    \* the last usePermissionCheck query made and its result
    builder,      \* the config object of a VulturPermissionConfigBuilder
    built,        \* the catalogs build() returned, as they were when returned
    log,          \* the builder / configuration calls made, with their outcomes
    http,         \* the last request served by a discovery handler, and its answer
    call2,        \* a second guarded request, in flight at the same time as `call'
    localStorage, \* the browser's 'vultur_sso_token' entry (or none)
    queryCache    \* the query client's entry under ['vultur-permissions']

vars ==
    <<gw, call, globalConfig, query, lastQuery, builder, built, log, http, call2, localStorage, queryCache>>

(***************************************************************************)
(* Bounds of the model.                                                    *)
(***************************************************************************)
MaxClaimedRoles == 2   \* length of user.roles
MaxRoleRecords == 2    \* length of the role list the identity service returns
MaxScopes == 2         \* number of scopes of a catalog
MaxEntries == 2        \* length of a permissions list handed to the queries
MaxIds == 2            \* length of a scope-id list handed to hasAny/hasAll
MaxOps == 4            \* builder / configuration calls in one behaviour

\* All sequences over S of length at most n.
SeqsUpTo(S, n) == UNION {[1..k -> S] : k \in 0..n}

\* The elements of a sequence.
Range(s) == {s[i] : i \in 1..Len(s)}

(***************************************************************************)
(* Character strings.                                                      *)
(***************************************************************************)
\* String.prototype.startsWith
StartsWith(s, prefix) ==
    /\ Len(s) >= Len(prefix)
    /\ SubSeq(s, 1, Len(prefix)) = prefix

\* String.prototype.slice(n) for 0 <= n
Slice(s, n) == IF n >= Len(s) THEN <<>> ELSE SubSeq(s, n + 1, Len(s))

\* String.prototype.includes
Includes(s, needle) ==
    \E i \in 0..Len(s) :
        /\ i + Len(needle) <= Len(s)
        /\ SubSeq(s, i + 1, i + Len(needle)) = needle

\* The upper-case letters the model's strings use, with their lower case.
LowerOf ==
    [c \in {"B", "E", "F", "M", "O", "R"} |->
        CASE c = "B" -> "b" [] c = "E" -> "e" [] c = "F" -> "f"
          [] c = "M" -> "m" [] c = "O" -> "o" [] c = "R" -> "r"]

\* String.prototype.toLowerCase
ToLowerCase(s) ==
    [i \in 1..Len(s) |-> IF s[i] \in DOMAIN LowerOf THEN LowerOf[s[i]] ELSE s[i]]

BearerPrefix == <<"B", "e", "a", "r", "e", "r", " ">>
BearerPrefixLen == 7

(***************************************************************************)
(* Data of the identity service.                                           *)
(***************************************************************************)
FleetMember == <<"F", "l", "e", "e", "t", " ", "M", "e", "m", "b", "e", "r">>
Officer == <<"O", "f", "f", "i", "c", "e", "r">>
RoleNames == {FleetMember, Officer}

Addresses == {"0xuser", "0xadmin"}

\* UserInfo (types.ts): the fields the code reads.
UserInfos ==
    [eth_address : Addresses,
     roles : SeqsUpTo(RoleNames, MaxClaimedRoles),
     is_admin : BOOLEAN]

\* UserRole (types.ts): the fields the code reads.
UserRoles == [name : RoleNames, is_active : BOOLEAN]
RoleLists == SeqsUpTo(UserRoles, MaxRoleRecords)

\* PermissionScope (types.ts): the fields the code reads.
PermissionScopes ==
    {[id |-> "fleet:read", action |-> "read"],
     [id |-> "fleet:write", action |-> "write"]}
ScopeIds == {s.id : s \in PermissionScopes}
Effects == {"allow", "deny"}

\* The decoded body of a permission check: the JSON value of its `allowed'
\* field (absent, a boolean, or a value of another type).
AllowedValues == {"true", "false", "absent", "string:true", "number:1"}
PermissionBodies == [allowed : AllowedValues]

\* The HTTP statuses the identity service answers with.
Statuses == {200, 204, 299, 300, 400, 401, 403, 404, 500}

\* Response.ok of the Fetch API: the status is in the range 200-299.
ResponseOk(status) == status >= 200 /\ status <= 299

\* Placeholders for the body of a response whose body the code never reads.
NoUser == [eth_address |-> "", roles |-> <<>>, is_admin |-> FALSE]
NoRoles == <<>>
NoPermissionBody == [allowed |-> "absent"]

\* What a fetch can end in: a response whose body decodes to one of `bodies'
\* (the body of a non-2xx response is never read), or a rejection (no response).
ResponsesOf(statuses, bodies, none) ==
    {[rejected |-> FALSE, status |-> s, body |-> b] :
        s \in {x \in statuses : ResponseOk(x)}, b \in bodies}
    \cup {[rejected |-> FALSE, status |-> s, body |-> none] :
        s \in {x \in statuses : ~ResponseOk(x)}}
    \cup {[rejected |-> TRUE, status |-> 0, body |-> none]}
Responses(bodies, none) == ResponsesOf(Statuses, bodies, none)

(***************************************************************************)
(* VulturIdentServerClient (server.ts).  Each method awaits one fetch and  *)
(* maps its response to a returned value or a thrown error.                *)
(***************************************************************************)
Return(v) == [kind |-> "return", code |-> "", message |-> "", value |-> v]
Throw(code, message) ==
    [kind |-> "throw", code |-> code, message |-> message, value |-> FALSE]

\* A rejected fetch is not caught by the client: the fetch's own TypeError
\* propagates.
FetchRejected == Throw("TypeError", "fetch failed")

\* response.ok as the client reads it.
IsOk(status) == ResponseOk(status)

\* server.ts validateToken: the status message omits the status number.
validateToken(resp) ==
    IF resp.rejected THEN FetchRejected
    ELSE IF ~IsOk(resp.status) THEN
        IF resp.status = 401
        THEN Throw("UNAUTHORIZED", "Invalid or expired token")
        ELSE Throw("NETWORK_ERROR", "Token validation failed")
    ELSE Return(resp.body)

getUserRoles(resp) ==
    IF resp.rejected THEN FetchRejected
    ELSE IF ~IsOk(resp.status) THEN
        IF resp.status = 401
        THEN Throw("UNAUTHORIZED", "Invalid or expired token")
        ELSE IF resp.status = 404
        THEN Throw("NOT_FOUND", "User not found")
        ELSE Throw("NETWORK_ERROR", "Get user roles failed")
    ELSE Return(resp.body)

MutGetUserInfoNo403(resp) ==
    IF resp.rejected THEN FetchRejected
    ELSE IF ~IsOk(resp.status) THEN
        IF resp.status = 401
        THEN Throw("UNAUTHORIZED", "Invalid or expired token")
        ELSE IF resp.status = 404
        THEN Throw("NOT_FOUND", "User not found")
        ELSE Throw("NETWORK_ERROR", "Get user info failed")
    ELSE Return(resp.body)

getUserInfo(resp) ==
    IF resp.rejected THEN FetchRejected
    ELSE IF ~IsOk(resp.status) THEN
        IF resp.status = 401
        THEN Throw("UNAUTHORIZED", "Invalid or expired token")
        ELSE IF resp.status = 403
        THEN Throw("FORBIDDEN", "Admin access required")
        ELSE IF resp.status = 404
        THEN Throw("NOT_FOUND", "User not found")
        ELSE Throw("NETWORK_ERROR", "Get user info failed")
    ELSE Return(resp.body)

\* A 404 handled like getUserRoles handles it.
MutCheckUserPermission404Throws(resp) ==
    IF resp.rejected THEN FetchRejected
    ELSE IF ~IsOk(resp.status) THEN
        IF resp.status = 401
        THEN Throw("UNAUTHORIZED", "Invalid or expired token")
        ELSE IF resp.status = 404
        THEN Throw("NOT_FOUND", "Permission not found")
        ELSE Throw("NETWORK_ERROR", "Permission check failed")
    ELSE Return(resp.body.allowed = "true")

\* result.allowed === true
checkUserPermission(resp) ==
    IF resp.rejected THEN FetchRejected
    ELSE IF ~IsOk(resp.status) THEN
        IF resp.status = 401
        THEN Throw("UNAUTHORIZED", "Invalid or expired token")
        ELSE IF resp.status = 404
        THEN Return(FALSE)
        ELSE Throw("NETWORK_ERROR", "Permission check failed")
    ELSE Return(resp.body.allowed = "true")

NoCall == [op |-> "none"]

ValidateTokenCall ==
    /\ \E resp \in Responses(UserInfos, NoUser) :
        gw' = [op |-> "validateToken", resp |-> resp, outcome |-> validateToken(resp)]
    /\ UNCHANGED <<call, globalConfig, query, lastQuery, builder, built, log, http, call2, localStorage, queryCache>>

GetUserRolesCall ==
    /\ \E resp \in Responses(RoleLists, NoRoles) :
        gw' = [op |-> "getUserRoles", resp |-> resp, outcome |-> getUserRoles(resp)]
    /\ UNCHANGED <<call, globalConfig, query, lastQuery, builder, built, log, http, call2, localStorage, queryCache>>

GetUserInfoCall ==
    /\ \E resp \in Responses(UserInfos, NoUser) :
        gw' = [op |-> "getUserInfo", resp |-> resp, outcome |-> getUserInfo(resp)]
    /\ UNCHANGED <<call, globalConfig, query, lastQuery, builder, built, log, http, call2, localStorage, queryCache>>

CheckUserPermissionCall ==
    /\ \E resp \in Responses(PermissionBodies, NoPermissionBody) :
        gw' = [op |-> "checkUserPermission", resp |-> resp,
               outcome |-> checkUserPermission(resp)]
    /\ UNCHANGED <<call, globalConfig, query, lastQuery, builder, built, log, http, call2, localStorage, queryCache>>

(***************************************************************************)
(* extractJWT (server.ts).  A request is modelled by its shape:            *)
(*   "getter"    req.headers has a get method (NextRequest);               *)
(*   "request"   req is a standard Request (its headers have a get method);*)
(*   "plain"     req.headers is a plain object (NextApiRequest);           *)
(*   "noheaders" req is an object without headers;                         *)
(*   "null"      req is null or undefined                                  *)
(* and by its Authorization header: absent, or a text.                     *)
(***************************************************************************)
Token1 == <<"t", "1">>
Token2 == <<"t", "2">>
HeaderTexts ==
    {BearerPrefix \o Token1,
     BearerPrefix \o Token2,
     BearerPrefix,
     <<"b", "e", "a", "r", "e", "r", " ">> \o Token1,
     <<"B", "a", "s", "i", "c", " ">> \o Token1,
     <<>>}
NoHeader == [present |-> FALSE, text |-> <<>>]
Headers == {NoHeader} \cup {[present |-> TRUE, text |-> h] : h \in HeaderTexts}
Requests ==
    {[shape |-> s, header |-> h] :
        s \in {"getter", "request", "plain"}, h \in Headers}
    \cup {[shape |-> s, header |-> NoHeader] : s \in {"noheaders", "null"}}

Extracted(text) == [kind |-> "token", text |-> text]
ExtractedNull == [kind |-> "null", text |-> <<>>]
ExtractThrows == [kind |-> "throw", text |-> <<>>]

\* authHeader.startsWith('Bearer ') ? authHeader.slice(7) : null
BearerToken(text) ==
    IF StartsWith(text, BearerPrefix)
    THEN Extracted(Slice(text, BearerPrefixLen))
    ELSE ExtractedNull

extractJWT(req) ==
    IF req.shape = "null" THEN ExtractThrows          \* req.headers of null
    ELSE IF req.shape \in {"getter", "request"} THEN   \* headers.get exists
        IF req.header.present THEN BearerToken(req.header.text)
        ELSE ExtractedNull                            \* authHeader?. of null
    ELSE IF req.shape = "plain" /\ req.header.present /\ req.header.text # <<>>
    THEN BearerToken(req.header.text)
    ELSE ExtractedNull        \* no headers, no (or an empty) authorization

\* A test for null alone, which lets the empty string through.
MutNoTokenNullOnly(ex) == ex.kind = "null"

\* !token : null and the empty string are falsy.
NoToken(ex) == ex.kind = "null" \/ (ex.kind = "token" /\ ex.text = <<>>)

(***************************************************************************)
(* ServerPermissionChecker.hasPermission (server.ts): the outcome of       *)
(* checkUserPermission, a NOT_FOUND error turned into false.               *)
(***************************************************************************)
ServerHasPermission(outcome) ==
    IF outcome.kind = "throw" /\ outcome.code = "NOT_FOUND"
    THEN Return(FALSE)
    ELSE outcome

\* ServerPermissionChecker.hasRole: some fetched role has the name and is
\* active; a NOT_FOUND error of getUserRoles is turned into false.
MutServerHasRoleSwallowsAll(outcome, roleName) ==
    IF outcome.kind = "throw" THEN Return(FALSE)
    ELSE Return(\E i \in 1..Len(outcome.value) :
                    /\ outcome.value[i].name = roleName
                    /\ outcome.value[i].is_active)

ServerHasRole(outcome, roleName) ==
    IF outcome.kind = "throw" THEN
        IF outcome.code = "NOT_FOUND" THEN Return(FALSE) ELSE outcome
    ELSE Return(\E i \in 1..Len(outcome.value) :
                    /\ outcome.value[i].name = roleName
                    /\ outcome.value[i].is_active)

\* A call on a ServerPermissionChecker: the response to the request its
\* gateway call made, that call's outcome, and the checker's outcome.
CheckerCall(op, roleName, resp, inner, outcome) ==
    [op |-> op, roleName |-> roleName, resp |-> resp, inner |-> inner,
     outcome |-> outcome]

CheckerHasPermissionCall ==
    /\ \E resp \in Responses(PermissionBodies, NoPermissionBody) :
        LET inner == checkUserPermission(resp)
        IN  gw' = CheckerCall("hasPermission", <<>>, resp, inner,
                              ServerHasPermission(inner))
    /\ UNCHANGED <<call, globalConfig, query, lastQuery, builder, built, log, http, call2, localStorage, queryCache>>

CheckerHasRoleCall ==
    /\ \E resp \in Responses(RoleLists, NoRoles), roleName \in RoleNames :
        LET inner == getUserRoles(resp)
        IN  gw' = CheckerCall("hasRole", roleName, resp, inner,
                              ServerHasRole(inner, roleName))
    /\ UNCHANGED <<call, globalConfig, query, lastQuery, builder, built, log, http, call2, localStorage, queryCache>>

\* ServerPermissionChecker.hasAnyPermission / hasAllPermissions: a loop of
\* awaited hasPermission calls over the listed scopes; resps[i] is the
\* response the i-th listed scope's request gets if it is made.  The result
\* holds the scopes queried, in order, and the outcome.
Looped(queried, outcome) == [queried |-> queried, outcome |-> outcome]

RECURSIVE AnyFrom(_, _, _, _)
AnyFrom(scopes, resps, i, queried) ==
    IF i > Len(scopes) THEN Looped(queried, Return(FALSE))
    ELSE LET o == ServerHasPermission(checkUserPermission(resps[i]))
             q == Append(queried, scopes[i])
         IN  IF o.kind = "throw" THEN Looped(q, o)
             ELSE IF o.value THEN Looped(q, Return(TRUE))
             ELSE AnyFrom(scopes, resps, i + 1, q)

ServerHasAnyPermission(scopes, resps) == AnyFrom(scopes, resps, 1, <<>>)

RECURSIVE AllFrom(_, _, _, _)
AllFrom(scopes, resps, i, queried) ==
    IF i > Len(scopes) THEN Looped(queried, Return(TRUE))
    ELSE LET o == ServerHasPermission(checkUserPermission(resps[i]))
             q == Append(queried, scopes[i])
         IN  IF o.kind = "throw" THEN Looped(q, o)
             ELSE IF ~o.value THEN Looped(q, Return(FALSE))
             ELSE AllFrom(scopes, resps, i + 1, q)

\* A variant that queries every listed scope before deciding.
MutServerHasAllPermissionsEager(scopes, resps) ==
    LET outs == [i \in 1..Len(scopes) |->
                    ServerHasPermission(checkUserPermission(resps[i]))]
        thrown == {i \in 1..Len(scopes) : outs[i].kind = "throw"}
    IN  IF thrown # {}
        THEN Looped(scopes, outs[CHOOSE i \in thrown : \A j \in thrown : i <= j])
        ELSE Looped(scopes, Return(\A i \in 1..Len(scopes) : outs[i].value))

ServerHasAllPermissions(scopes, resps) == AllFrom(scopes, resps, 1, <<>>)

\* ServerPermissionChecker.isAdmin: the validated user's flag; every error of
\* validateToken is caught and answered false.
MutServerIsAdminRethrows(outcome) ==
    IF outcome.kind = "throw" THEN
        IF outcome.code = "UNAUTHORIZED" THEN Return(FALSE) ELSE outcome
    ELSE Return(outcome.value.is_admin)

ServerIsAdmin(outcome) ==
    IF outcome.kind = "throw" THEN Return(FALSE)
    ELSE Return(outcome.value.is_admin)

\* The responses to the permission requests of a loop.
LoopResponses ==
    ResponsesOf({200, 401, 404, 500},
                {[allowed |-> "true"], [allowed |-> "false"]},
                NoPermissionBody)

\* The checker keeps no state between calls: the loops and isAdmin are
\* explored as the first call made.
CheckerHasAnyPermissionCall ==
    /\ gw = NoCall
    /\ \E scopes \in SeqsUpTo(ScopeIds, MaxIds) :
        \E resps \in [1..Len(scopes) -> LoopResponses] :
            LET r == ServerHasAnyPermission(scopes, resps)
            IN  gw' = [op |-> "hasAnyPermission", scopes |-> scopes,
                       resps |-> resps, queried |-> r.queried,
                       outcome |-> r.outcome]
    /\ UNCHANGED <<call, globalConfig, query, lastQuery, builder, built, log, http, call2, localStorage, queryCache>>

CheckerHasAllPermissionsCall ==
    /\ gw = NoCall
    /\ \E scopes \in SeqsUpTo(ScopeIds, MaxIds) :
        \E resps \in [1..Len(scopes) -> LoopResponses] :
            LET r == ServerHasAllPermissions(scopes, resps)
            IN  gw' = [op |-> "hasAllPermissions", scopes |-> scopes,
                       resps |-> resps, queried |-> r.queried,
                       outcome |-> r.outcome]
    /\ UNCHANGED <<call, globalConfig, query, lastQuery, builder, built, log, http, call2, localStorage, queryCache>>

CheckerIsAdminCall ==
    /\ gw = NoCall
    /\ \E address \in Addresses, resp \in Responses(UserInfos, NoUser) :
        gw' = [op |-> "isAdmin", address |-> address, resp |-> resp,
               outcome |-> ServerIsAdmin(validateToken(resp))]
    /\ UNCHANGED <<call, globalConfig, query, lastQuery, builder, built, log, http, call2, localStorage, queryCache>>

(***************************************************************************)
(* withAuth / withPermission (server.ts).  A guarded call runs in steps,   *)
(* one per await: the extraction and the validateToken fetch; that fetch's *)
(* response and (withPermission) the permission fetch; that fetch's        *)
(* response.  The trace records what the call did, with the arguments it   *)
(* passed on.                                                              *)
(***************************************************************************)
AppNames == {"acme"}

Event(ev, token, addr, app, scope, user, result, status) ==
    [ev |-> ev, token |-> token, addr |-> addr, app |-> app, scope |-> scope,
     user |-> user, result |-> result, status |-> status]
\* extractJWT returned this token.
EvExtract(token) == Event("extract", token, "", "", "", NoUser, FALSE, 0)
\* validateToken was called with this token.
EvValidateToken(token) ==
    Event("validateToken", token, "", "", "", NoUser, FALSE, 0)
\* validateToken returned this user / threw, on a response of this status (0:
\* the fetch rejected).
EvValidated(user, status) == Event("validated", <<>>, "", "", "", user, TRUE, status)
EvValidateFailed(status) ==
    Event("validateFailed", <<>>, "", "", "", NoUser, FALSE, status)
\* checker.hasPermission was called with these arguments.
EvCheck(addr, app, scope, token) ==
    Event("hasPermission", token, addr, app, scope, NoUser, FALSE, 0)
\* It returned this result / threw.
EvChecked(result, status) == Event("checked", <<>>, "", "", "", NoUser, result, status)
EvCheckFailed(status) == Event("checkFailed", <<>>, "", "", "", NoUser, FALSE, status)
\* The wrapped handler was invoked with this user.
EvHandler(user) == Event("handler", <<>>, "", "", "", user, FALSE, 0)

IdleCall ==
    [pc |-> "idle", kind |-> "withAuth", app |-> "", scope |-> "",
     req |-> [shape |-> "noheaders", header |-> NoHeader],
     extracted |-> ExtractedNull,
     token |-> <<>>, user |-> NoUser, trace |-> <<>>,
     outcome |-> Return("")]

Finish(c, outcome) == [c EXCEPT !.pc = "done", !.outcome = outcome]

\* return handler(user, ...args): the handler runs once and its result is the
\* call's result.
InvokeHandler(c, user) ==
    [c EXCEPT !.pc = "done", !.trace = Append(@, EvHandler(user)),
              !.outcome = Return("handled")]

\* The synchronous start of the wrapper: extractJWT, the !token test, and the
\* fetch of validateToken sent with the token.
GuardBegin(kind, app, scope, req) ==
    LET ex == extractJWT(req)
        c0 == [IdleCall EXCEPT !.kind = kind, !.app = app, !.scope = scope,
                               !.req = req, !.extracted = ex]
    IN  IF ex.kind = "throw" THEN Finish(c0, Throw("TypeError", "req is null"))
        ELSE IF NoToken(ex)
        THEN Finish(c0, Throw("UNAUTHORIZED", "No JWT token provided"))
        ELSE [c0 EXCEPT !.pc = "validating", !.token = ex.text,
                        !.trace = <<EvExtract(ex.text), EvValidateToken(ex.text)>>]

\* The validateToken fetch answers: its error propagates; otherwise withAuth
\* invokes the handler and withPermission calls checker.hasPermission.
MutGuardOnValidateSwallows(c, resp) ==
    LET o == validateToken(resp)
    IN  IF o.kind = "throw" /\ o.code # "NETWORK_ERROR"
        THEN Finish([c EXCEPT !.trace = Append(@, EvValidateFailed(resp.status))], o)
        ELSE LET user == IF o.kind = "throw" THEN NoUser ELSE o.value
                 c1 == [c EXCEPT !.user = user,
                                 !.trace = Append(@, EvValidated(user, resp.status))]
             IN  IF c.kind = "withAuth" THEN InvokeHandler(c1, user)
                 ELSE [c1 EXCEPT !.pc = "checking",
                          !.trace = Append(@, EvCheck(user.eth_address, c.app,
                                                      c.scope, c.token))]

GuardOnValidate(c, resp) ==
    LET o == validateToken(resp)
    IN  IF o.kind = "throw"
        THEN Finish([c EXCEPT !.trace = Append(@, EvValidateFailed(resp.status))], o)
        ELSE LET user == o.value
                 c1 == [c EXCEPT !.user = user,
                                 !.trace = Append(@, EvValidated(user, resp.status))]
             IN  IF c.kind = "withAuth" THEN InvokeHandler(c1, user)
                 ELSE [c1 EXCEPT !.pc = "checking",
                          !.trace = Append(@, EvCheck(user.eth_address, c.app,
                                                      c.scope, c.token))]

\* The permission fetch answers: an error propagates, false is FORBIDDEN,
\* true invokes the handler.
MutGuardOnCheckNoGate(c, resp) ==
    LET o == ServerHasPermission(checkUserPermission(resp))
    IN  IF o.kind = "throw"
        THEN Finish([c EXCEPT !.trace = Append(@, EvCheckFailed(resp.status))], o)
        ELSE InvokeHandler(
                 [c EXCEPT !.trace = Append(@, EvChecked(o.value, resp.status))],
                 c.user)

GuardOnCheck(c, resp) ==
    LET o == ServerHasPermission(checkUserPermission(resp))
    IN  IF o.kind = "throw"
        THEN Finish([c EXCEPT !.trace = Append(@, EvCheckFailed(resp.status))], o)
        ELSE LET c1 == [c EXCEPT !.trace = Append(@, EvChecked(o.value, resp.status))]
             IN  IF ~o.value
                 THEN Finish(c1, Throw("FORBIDDEN",
                                 "Permission '" \o c.scope \o "' required"))
                 ELSE InvokeHandler(c1, c.user)

\* A request arrives at a handler wrapped by withAuth.
WithAuthRequest ==
    /\ call.pc \in {"idle", "done"}
    /\ \E req \in Requests : call' = GuardBegin("withAuth", "", "", req)
    /\ UNCHANGED <<gw, globalConfig, query, lastQuery, builder, built, log, http, call2, localStorage, queryCache>>

\* A request arrives at a handler wrapped by withPermission(app, scope).
WithPermissionRequest ==
    /\ call.pc \in {"idle", "done"}
    /\ \E req \in Requests, app \in AppNames, scope \in ScopeIds :
        call' = GuardBegin("withPermission", app, scope, req)
    /\ UNCHANGED <<gw, globalConfig, query, lastQuery, builder, built, log, http, call2, localStorage, queryCache>>

ValidateTokenResponse ==
    /\ call.pc = "validating"
    /\ \E resp \in Responses(UserInfos, NoUser) : call' = GuardOnValidate(call, resp)
    /\ UNCHANGED <<gw, globalConfig, query, lastQuery, builder, built, log, http, call2, localStorage, queryCache>>

CheckPermissionResponse ==
    /\ call.pc = "checking"
    /\ \E resp \in Responses(PermissionBodies, NoPermissionBody) :
        call' = GuardOnCheck(call, resp)
    /\ UNCHANGED <<gw, globalConfig, query, lastQuery, builder, built, log, http, call2, localStorage, queryCache>>

(***************************************************************************)
(* Two guarded requests in flight at once (server.ts withAuth /             *)
(* withPermission): `call' carries Token1 and `call2' carries Token2; the   *)
(* steps of the two invocations interleave at their awaits.  The identity   *)
(* service answers a request made with a token with any status and, when it *)
(* validates the token, with a user of that token's address.                *)
(***************************************************************************)
AddressOf(token) == IF token = Token1 THEN "0xuser" ELSE "0xadmin"
ServiceUsers(token) ==
    {u \in UserInfos : u.eth_address = AddressOf(token) /\ u.roles = <<>>}
RequestWith(token) ==
    [shape |-> "getter", header |-> [present |-> TRUE, text |-> BearerPrefix \o token]]

\* token, user and hasPermission are consts of the invocation: after an await
\* an invocation resumes with its own values, whatever the other one did.
MutResumeSharedLocals(own, other) ==
    IF other.pc = "idle" THEN own
    ELSE [own EXCEPT !.token = other.token, !.user = other.user]

Resume(own, other) == own

\* The two invocations, and the step one of them takes.
Invocations == {1, 2}
TokenOf(who) == IF who = 1 THEN Token1 ELSE Token2
Step(who, next) ==
    /\ call' = IF who = 1 THEN next ELSE call
    /\ call2' = IF who = 2 THEN next ELSE call2
    /\ UNCHANGED <<gw, globalConfig, query, lastQuery, builder, built, log, http,
                   localStorage, queryCache>>

ConcurrentRequest ==
    \E who \in Invocations :
        LET own == IF who = 1 THEN call ELSE call2
        IN  /\ own.pc = "idle"
            /\ \/ Step(who, GuardBegin("withAuth", "", "", RequestWith(TokenOf(who))))
               \/ \E app \in AppNames, scope \in ScopeIds :
                    Step(who, GuardBegin("withPermission", app, scope,
                                         RequestWith(TokenOf(who))))

ConcurrentValidateTokenResponse ==
    \E who \in Invocations :
        LET own == IF who = 1 THEN call ELSE call2
            other == IF who = 1 THEN call2 ELSE call
        IN  /\ own.pc = "validating"
            /\ \E resp \in Responses(ServiceUsers(own.token), NoUser) :
                Step(who, GuardOnValidate(Resume(own, other), resp))

ConcurrentCheckPermissionResponse ==
    \E who \in Invocations :
        LET own == IF who = 1 THEN call ELSE call2
            other == IF who = 1 THEN call2 ELSE call
        IN  /\ own.pc = "checking"
            /\ \E resp \in Responses(PermissionBodies, NoPermissionBody) :
                Step(who, GuardOnCheck(Resume(own, other), resp))

(***************************************************************************)
(* The global configuration (config.ts): none before initializeVulturSSO,  *)
(* else the application name and the catalog's scopes, in order.           *)
(***************************************************************************)
IdentApiUrl == "https://ident"
NoConfig ==
    [tag |-> "none", identApiUrl |-> "", applicationName |-> "",
     permissions |-> <<>>]
Catalogs == SeqsUpTo(PermissionScopes, MaxScopes)
Configs ==
    {[tag |-> "config", identApiUrl |-> IdentApiUrl, applicationName |-> a,
      permissions |-> p] :
        a \in AppNames, p \in Catalogs}

(***************************************************************************)
(* PermissionResolver.resolveUserPermissions (hooks.ts).                   *)
(***************************************************************************)
MemberWord == <<"m", "e", "m", "b", "e", "r">>

Allow(scope) == [scope |-> scope, effect |-> "allow"]

\* roles.find(r => r.name === roleName): the index of the first record with
\* that name, 0 when there is none.
RECURSIVE FindFrom(_, _, _)
FindFrom(roles, roleName, i) ==
    IF i > Len(roles) THEN 0
    ELSE IF roles[i].name = roleName THEN i
    ELSE FindFrom(roles, roleName, i + 1)

FindRole(roles, roleName) == FindFrom(roles, roleName, 1)

\* roleName.toLowerCase().includes('member')
MutIsMemberRoleCaseSensitive(roleName) == Includes(roleName, MemberWord)
IsMemberRole(roleName) == Includes(ToLowerCase(roleName), MemberWord)

\* role && role.is_active
MutRoleCountsIgnoresActive(roles, roleName) == FindRole(roles, roleName) # 0
RoleCounts(roles, roleName) ==
    LET i == FindRole(roles, roleName)
    IN  i # 0 /\ roles[i].is_active

\* The inner loop: what one active role adds for the scopes from index i on.
RECURSIVE ScopeLoop(_, _, _, _)
ScopeLoop(user, roleName, scopes, i) ==
    IF i > Len(scopes) THEN <<>>
    ELSE LET added ==
                 IF user.is_admin THEN <<Allow(scopes[i])>>
                 ELSE IF IsMemberRole(roleName) /\ scopes[i].action = "read"
                 THEN <<Allow(scopes[i])>>
                 ELSE <<>>
         IN  added \o ScopeLoop(user, roleName, scopes, i + 1)

\* The outer loop over user.roles, from index k on.
RECURSIVE RoleLoop(_, _, _, _)
RoleLoop(user, roles, scopes, k) ==
    IF k > Len(user.roles) THEN <<>>
    ELSE (IF RoleCounts(roles, user.roles[k])
          THEN ScopeLoop(user, user.roles[k], scopes, 1)
          ELSE <<>>)
         \o RoleLoop(user, roles, scopes, k + 1)

resolveUserPermissions(user, roles, config) ==
    RoleLoop(user, roles, config.permissions, 1)

(***************************************************************************)
(* useVulturPermissions (hooks.ts): the first load of the                  *)
(* 'vultur-permissions' query.  The query function runs in steps, one per  *)
(* await; a failed run is retried as the hook's retry option decides.      *)
(* Refetching a loaded query is not modelled.                              *)
(***************************************************************************)
HookUsers == {u \in UserInfos : u.eth_address = "0xuser"}

\* The statuses the identity service answers the browser's fetches with.
HookStatuses == {200, 401, 404, 500}

NoData == [tag |-> "none", user |-> NoUser, roles |-> <<>>,
           permissions |-> <<>>, isAdmin |-> FALSE]
UserPermissions(user, roles, permissions) ==
    [tag |-> "data", user |-> user, roles |-> roles,
     permissions |-> permissions, isAdmin |-> user.is_admin]

\* status: "pending"       the query function has yet to run (or run again),
\*         "fetchingUser"  it awaits getCurrentUser,
\*         "fetchingRoles" it awaits getUserRoles,
\*         "success" / "error".
\* lastStatus is the status of the last response the query function received
\* (0: none, or a rejected fetch).
NewQuery(enabled) ==
    [status |-> "pending", enabled |-> enabled, user |-> NoUser,
     data |-> NoData, error |-> "", failureCount |-> 0, lastStatus |-> 0]

\* retry: (failureCount, error) => ..., called with the number of failures
\* before this one.
MaxRetries == 3
MutRetryWhateverTheError(failureCount, code) == failureCount < MaxRetries
Retry(failureCount, code) ==
    IF code = "UNAUTHORIZED" THEN FALSE ELSE failureCount < MaxRetries

\* A run of the query function failed with a VulturSSOError of this code.
QueryFailed(q, code) ==
    IF Retry(q.failureCount, code)
    THEN [q EXCEPT !.status = "pending", !.user = NoUser,
                   !.failureCount = @ + 1]
    ELSE [q EXCEPT !.status = "error", !.user = NoUser, !.error = code,
                   !.failureCount = @ + 1]

\* The code of the error the query function throws for what it caught: a
\* VulturSSOError as it is, anything else as NETWORK_ERROR.
Rethrown(code) ==
    IF code \in {"UNAUTHORIZED", "NOT_FOUND", "NETWORK_ERROR", "FORBIDDEN"}
    THEN code
    ELSE "NETWORK_ERROR"

\* VulturIdentApiClient.getCurrentUser
getCurrentUser(resp) ==
    IF resp.rejected THEN FetchRejected
    ELSE IF ~IsOk(resp.status) THEN
        IF resp.status = 401
        THEN Throw("UNAUTHORIZED", "Not authenticated")
        ELSE Throw("NETWORK_ERROR", "Get current user failed")
    ELSE Return(resp.body)

\* VulturIdentApiClient.getUserRoles
clientGetUserRoles(resp) ==
    IF resp.rejected THEN FetchRejected
    ELSE IF ~IsOk(resp.status) THEN
        IF resp.status = 401
        THEN Throw("UNAUTHORIZED", "Not authenticated")
        ELSE IF resp.status = 404
        THEN Throw("NOT_FOUND", "User not found")
        ELSE Throw("NETWORK_ERROR", "Get user roles failed")
    ELSE Return(resp.body)

\* The query function starts: getVulturSSOConfig() throws when the client is
\* not initialized, else getCurrentUser is sent.
QueryFnStart ==
    /\ query.enabled
    /\ query.status = "pending"
    /\ query' = IF globalConfig.tag = "none"
                THEN QueryFailed(query, Rethrown("Error"))
                ELSE [query EXCEPT !.status = "fetchingUser"]
    /\ lastQuery' = [op |-> "none"]
    /\ UNCHANGED <<gw, call, globalConfig, builder, built, log, http, call2, localStorage, queryCache>>

CurrentUserResponse ==
    /\ query.status = "fetchingUser"
    /\ \E resp \in ResponsesOf(HookStatuses, HookUsers, NoUser) :
        LET o == getCurrentUser(resp)
            q == [query EXCEPT !.lastStatus = resp.status]
        IN  query' = IF o.kind = "throw"
                     THEN QueryFailed(q, Rethrown(o.code))
                     ELSE [q EXCEPT !.status = "fetchingRoles",
                                    !.user = o.value]
    /\ lastQuery' = [op |-> "none"]
    /\ UNCHANGED <<gw, call, globalConfig, builder, built, log, http, call2, localStorage, queryCache>>

UserRolesResponse ==
    /\ query.status = "fetchingRoles"
    /\ \E resp \in ResponsesOf(HookStatuses, RoleLists, NoRoles) :
        LET o == clientGetUserRoles(resp)
            q == [query EXCEPT !.lastStatus = resp.status]
        IN  query' =
              IF o.kind = "throw"
              THEN QueryFailed(q, Rethrown(o.code))
              ELSE [q EXCEPT
                      !.status = "success", !.user = NoUser, !.error = "",
                      !.failureCount = 0,
                      !.data = UserPermissions(query.user, o.value,
                                 resolveUserPermissions(query.user, o.value,
                                                        globalConfig))]
    /\ lastQuery' = [op |-> "none"]
    /\ UNCHANGED <<gw, call, globalConfig, builder, built, log, http, call2, localStorage, queryCache>>

(***************************************************************************)
(* usePermissionCheck (hooks.ts): the five queries over the query's data   *)
(* (undefined until a load has succeeded).                                 *)
(***************************************************************************)
\* permissions.find(p => p.scope.id === scopeId): the index of the first
\* entry with that scope id, 0 when there is none.
RECURSIVE FindEntryFrom(_, _, _)
FindEntryFrom(permissions, scopeId, i) ==
    IF i > Len(permissions) THEN 0
    ELSE IF permissions[i].scope.id = scopeId THEN i
    ELSE FindEntryFrom(permissions, scopeId, i + 1)

hasPermission(data, scopeId, requiredEffect) ==
    IF data.tag = "none" THEN FALSE
    ELSE LET i == FindEntryFrom(data.permissions, scopeId, 1)
         IN  i # 0 /\ data.permissions[i].effect = requiredEffect

\* scopeIds.some(...)
hasAnyPermission(data, scopeIds, requiredEffect) ==
    \E i \in 1..Len(scopeIds) : hasPermission(data, scopeIds[i], requiredEffect)

\* scopeIds.every(...)
hasAllPermissions(data, scopeIds, requiredEffect) ==
    \A i \in 1..Len(scopeIds) : hasPermission(data, scopeIds[i], requiredEffect)

\* userPermissions.user.roles.includes(roleName)
MutHasRoleActiveOnly(data, roleName) ==
    IF data.tag = "none" THEN FALSE
    ELSE /\ \E k \in 1..Len(data.user.roles) : data.user.roles[k] = roleName
         /\ RoleCounts(data.roles, roleName)
hasRole(data, roleName) ==
    IF data.tag = "none" THEN FALSE
    ELSE \E k \in 1..Len(data.user.roles) : data.user.roles[k] = roleName

\* userPermissions?.isAdmin ?? false
isAdmin(data) == IF data.tag = "none" THEN FALSE ELSE data.isAdmin

IdLists == SeqsUpTo(ScopeIds, MaxIds)

Asked(op, id, ids, effect, name, result) ==
    [op |-> op, id |-> id, ids |-> ids, effect |-> effect, name |-> name,
     result |-> result]

\* A component asks one of the queries; lastQuery keeps the question and the
\* answer until the next render.
AskHasPermission ==
    /\ lastQuery.op = "none"
    /\ \E id \in ScopeIds, e \in Effects :
        lastQuery' = Asked("hasPermission", id, <<>>, e, <<>>,
                           hasPermission(query.data, id, e))
    /\ UNCHANGED <<gw, call, globalConfig, query, builder, built, log, http, call2, localStorage, queryCache>>

AskHasAnyPermission ==
    /\ lastQuery.op = "none"
    /\ \E ids \in IdLists, e \in Effects :
        lastQuery' = Asked("hasAnyPermission", "", ids, e, <<>>,
                           hasAnyPermission(query.data, ids, e))
    /\ UNCHANGED <<gw, call, globalConfig, query, builder, built, log, http, call2, localStorage, queryCache>>

AskHasAllPermissions ==
    /\ lastQuery.op = "none"
    /\ \E ids \in IdLists, e \in Effects :
        lastQuery' = Asked("hasAllPermissions", "", ids, e, <<>>,
                           hasAllPermissions(query.data, ids, e))
    /\ UNCHANGED <<gw, call, globalConfig, query, builder, built, log, http, call2, localStorage, queryCache>>

AskHasRole ==
    /\ lastQuery.op = "none"
    /\ \E name \in RoleNames :
        lastQuery' = Asked("hasRole", "", <<>>, "", name,
                           hasRole(query.data, name))
    /\ UNCHANGED <<gw, call, globalConfig, query, builder, built, log, http, call2, localStorage, queryCache>>

AskIsAdmin ==
    /\ lastQuery.op = "none"
    /\ lastQuery' = Asked("isAdmin", "", <<>>, "", <<>>, isAdmin(query.data))
    /\ UNCHANGED <<gw, call, globalConfig, query, builder, built, log, http, call2, localStorage, queryCache>>

\* The component renders again: the answer of the last query is dropped.
Rerender ==
    /\ lastQuery.op # "none"
    /\ lastQuery' = [op |-> "none"]
    /\ UNCHANGED <<gw, call, globalConfig, query, builder, built, log, http, call2, localStorage, queryCache>>

(***************************************************************************)
(* VulturPermissionConfigBuilder (config.ts).  The builder owns one object, *)
(* this.config; build() returns that very object, so a catalog handed out   *)
(* by build() and the builder's config are one object.  `builder' is that   *)
(* object, `built' the value each returned catalog had when build()         *)
(* returned it, `log' the calls made so far with their outcomes.            *)
(***************************************************************************)
\* The scopes an application registers: two of them under the same id.
BuilderScopes ==
    PermissionScopes \cup {[id |-> "fleet:read", action |-> "write"]}
NoScope == [id |-> "", action |-> ""]

\* A VulturPermissionConfig value ("" : the field is undefined or empty).
CatalogOf(applicationName, version, permissions, defaultPermissions) ==
    [applicationName |-> applicationName, version |-> version,
     permissions |-> permissions, defaultPermissions |-> defaultPermissions]

\* create(applicationName, version = '1.0.0'), and new
\* VulturPermissionConfigBuilder() used without create.
DefaultVersion == "1.0.0"
create(applicationName, version) ==
    CatalogOf(applicationName, version, <<>>, <<>>)
NewBuilder == CatalogOf("", "", <<>>, <<>>)
Builders ==
    {create(a, v) : a \in AppNames \cup {""}, v \in {DefaultVersion, ""}}
    \cup {NewBuilder}

\* The effect argument of addDefaultPermission; "omitted" takes the default.
EffectArgs == Effects \cup {"omitted"}
EffectOf(arg) == IF arg = "omitted" THEN "deny" ELSE arg

\* this.config.permissions.find(p => p.id === scopeId): the index of the first
\* scope with the id, 0 when there is none.
RECURSIVE FindScopeFrom(_, _, _)
FindScopeFrom(permissions, scopeId, i) ==
    IF i > Len(permissions) THEN 0
    ELSE IF permissions[i].id = scopeId THEN i
    ELSE FindScopeFrom(permissions, scopeId, i + 1)

NotFoundMessage(scopeId) ==
    IF scopeId = "fleet:read" THEN "Permission scope 'fleet:read' not found"
    ELSE "Permission scope 'fleet:write' not found"

\* An entry of the log.
Logged(op, scope, id, effect, out) ==
    [op |-> op, scope |-> scope, id |-> id, effect |-> effect, out |-> out]

\* addPermissionScope(scope): pushes the scope.
MutAddPermissionScopeLastWriteWins(b, scope) ==
    [b EXCEPT !.permissions =
        Append(SelectSeq(@, LAMBDA p : p.id # scope.id), scope)]

addPermissionScope(b, scope) ==
    [b EXCEPT !.permissions = Append(@, scope)]

\* addDefaultPermission(scopeId, effect = 'deny')
MutAddDefaultPermissionLastScope(b, scopeId, effect) ==
    LET ids == {i \in 1..Len(b.permissions) : b.permissions[i].id = scopeId}
    IN  IF ids = {}
        THEN [config |-> b, out |-> Throw("Error", NotFoundMessage(scopeId))]
        ELSE LET i == CHOOSE k \in ids : \A m \in ids : m <= k
             IN [config |-> [b EXCEPT !.defaultPermissions =
                        Append(@, [scope |-> b.permissions[i],
                                   effect |-> EffectOf(effect)])],
                 out |-> Return("this")]

addDefaultPermission(b, scopeId, effect) ==
    LET i == FindScopeFrom(b.permissions, scopeId, 1)
    IN  IF i = 0
        THEN [config |-> b, out |-> Throw("Error", NotFoundMessage(scopeId))]
        ELSE [config |-> [b EXCEPT !.defaultPermissions =
                        Append(@, [scope |-> b.permissions[i],
                                   effect |-> EffectOf(effect)])],
              out |-> Return("this")]

\* build(): this.config.permissions is an array from construction on, so the
\* third test never fails; the result is this.config itself.
MutBuildReversed(b) ==
    IF b.applicationName = "" THEN Throw("Error", "Application name is required")
    ELSE IF b.version = "" THEN Throw("Error", "Version is required")
    ELSE Return([b EXCEPT !.permissions =
                    [i \in 1..Len(@) |-> @[Len(@) + 1 - i]]])

build(b) ==
    IF b.applicationName = "" THEN Throw("Error", "Application name is required")
    ELSE IF b.version = "" THEN Throw("Error", "Version is required")
    ELSE Return(b)

AddPermissionScope ==
    /\ Len(log) < MaxOps
    /\ \E scope \in BuilderScopes :
        /\ builder' = addPermissionScope(builder, scope)
        /\ log' = Append(log, Logged("addPermissionScope", scope, scope.id, "",
                                     Return("this")))
    /\ UNCHANGED <<gw, call, globalConfig, query, lastQuery, built, http, call2, localStorage, queryCache>>

AddDefaultPermission ==
    /\ Len(log) < MaxOps
    /\ \E scopeId \in ScopeIds, effect \in EffectArgs :
        LET r == addDefaultPermission(builder, scopeId, effect)
        IN  /\ builder' = r.config
            /\ log' = Append(log, Logged("addDefaultPermission", NoScope,
                                         scopeId, effect, r.out))
    /\ UNCHANGED <<gw, call, globalConfig, query, lastQuery, built, http, call2, localStorage, queryCache>>

Build ==
    /\ Len(log) < MaxOps
    /\ LET out == build(builder)
       IN  /\ log' = Append(log, Logged("build", NoScope, "", "", out))
           /\ built' = IF out.kind = "return" THEN Append(built, out.value)
                       ELSE built
    /\ UNCHANGED <<gw, call, globalConfig, query, lastQuery, builder, http, call2, localStorage, queryCache>>

(***************************************************************************)
(* initializeVulturSSO / getVulturSSOConfig / getPermissionConfig           *)
(* (config.ts).  A configuration handed to initializeVulturSSO is modelled  *)
(* by the three fields it validates; of the stored configuration the model  *)
(* keeps the service URL, the application name and the catalog's scopes.    *)
(***************************************************************************)
ReadOnlyCatalog == <<[id |-> "fleet:read", action |-> "read"]>>
FullCatalog ==
    <<[id |-> "fleet:read", action |-> "read"],
      [id |-> "fleet:write", action |-> "write"]>>
NoPermissionConfig == [present |-> FALSE, permissions |-> <<>>]
PermissionConfigArgs ==
    {[present |-> TRUE, permissions |-> c] : c \in {ReadOnlyCatalog, FullCatalog}}
ConfigArg(identApiUrl, applicationName, permissionConfig) ==
    [identApiUrl |-> identApiUrl, applicationName |-> applicationName,
     permissionConfig |-> permissionConfig]
ConfigArgs ==
    LET full == [present |-> TRUE, permissions |-> FullCatalog]
    IN  {ConfigArg(IdentApiUrl, a, pc) : a \in AppNames, pc \in PermissionConfigArgs}
        \cup {ConfigArg("", a, full) : a \in AppNames}
        \cup {ConfigArg(IdentApiUrl, "", full)}
        \cup {ConfigArg(IdentApiUrl, a, NoPermissionConfig) : a \in AppNames}

\* initializeVulturSSO(config): the new value of globalConfig and the outcome.
MutInitializeClearsOnError(g, config) ==
    IF config.identApiUrl = ""
    THEN [config |-> NoConfig, out |-> Throw("Error",
              "identApiUrl is required in VulturSSOClientConfig")]
    ELSE IF config.applicationName = ""
    THEN [config |-> NoConfig, out |-> Throw("Error",
              "applicationName is required in VulturSSOClientConfig")]
    ELSE IF ~config.permissionConfig.present
    THEN [config |-> NoConfig, out |-> Throw("Error",
              "permissionConfig is required in VulturSSOClientConfig")]
    ELSE [config |-> [tag |-> "config",
                      identApiUrl |-> config.identApiUrl,
                      applicationName |-> config.applicationName,
                      permissions |-> config.permissionConfig.permissions],
          out |-> Return("undefined")]

initializeVulturSSO(g, config) ==
    IF config.identApiUrl = ""
    THEN [config |-> g, out |-> Throw("Error",
              "identApiUrl is required in VulturSSOClientConfig")]
    ELSE IF config.applicationName = ""
    THEN [config |-> g, out |-> Throw("Error",
              "applicationName is required in VulturSSOClientConfig")]
    ELSE IF ~config.permissionConfig.present
    THEN [config |-> g, out |-> Throw("Error",
              "permissionConfig is required in VulturSSOClientConfig")]
    ELSE [config |-> [tag |-> "config",
                      identApiUrl |-> config.identApiUrl,
                      applicationName |-> config.applicationName,
                      permissions |-> config.permissionConfig.permissions],
          out |-> Return("undefined")]

\* getVulturSSOConfig()
NotInitialized ==
    Throw("Error",
          "VULTUR SSO Client not initialized. Call initializeVulturSSO() first.")
getVulturSSOConfig(g) ==
    IF g.tag = "none" THEN NotInitialized ELSE Return(g)

\* getPermissionConfig(): the catalog of the stored configuration.
getPermissionConfig(g) ==
    LET config == getVulturSSOConfig(g)
    IN  IF config.kind = "throw" THEN config
        ELSE Return(config.value.permissions)

LoggedConfig(op, config, out) == [op |-> op, config |-> config, out |-> out]
NoConfigArg == ConfigArg("", "", NoPermissionConfig)

InitializeVulturSSO ==
    /\ Len(log) < MaxOps
    /\ \E config \in ConfigArgs :
        LET r == initializeVulturSSO(globalConfig, config)
        IN  /\ globalConfig' = r.config
            /\ log' = Append(log, LoggedConfig("initializeVulturSSO", config, r.out))
    /\ UNCHANGED <<gw, call, query, lastQuery, builder, built, http, call2, localStorage, queryCache>>

GetVulturSSOConfig ==
    /\ Len(log) < MaxOps
    /\ log' = Append(log, LoggedConfig("getVulturSSOConfig", NoConfigArg,
                                       getVulturSSOConfig(globalConfig)))
    /\ UNCHANGED <<gw, call, globalConfig, query, lastQuery, builder, built, http, call2, localStorage, queryCache>>

GetPermissionConfig ==
    /\ Len(log) < MaxOps
    /\ log' = Append(log, LoggedConfig("getPermissionConfig", NoConfigArg,
                                       getPermissionConfig(globalConfig)))
    /\ UNCHANGED <<gw, call, globalConfig, query, lastQuery, builder, built, http, call2, localStorage, queryCache>>

(***************************************************************************)
(* The discovery handlers (endpoint.ts): the two App Router handlers, which *)
(* return a response, and the two Pages Router handlers, which answer       *)
(* through res.  A catalog is modelled by its scopes; a catalog that cannot *)
(* be serialized holds a reference to itself.                               *)
(***************************************************************************)
Methods == {"GET", "POST", "DELETE"}

SelfReference == [id |-> "circular", action |-> "circular"]
CircularCatalog == <<[id |-> "fleet:read", action |-> "read"], SelfReference>>
StaticCatalogs == Catalogs \cup {CircularCatalog}
EndpointConfigs ==
    {NoConfig} \cup Configs
    \cup {[tag |-> "config", identApiUrl |-> IdentApiUrl, applicationName |-> a,
            permissions |-> CircularCatalog] :
            a \in AppNames}

\* JSON.stringify(config): the document, or a TypeError on a circular value.
JSONStringify(config) ==
    IF SelfReference \in Range(config)
    THEN Throw("TypeError", "Converting circular structure to JSON")
    ELSE Return([json |-> config])

HttpResponse(status, body) == [status |-> status, body |-> body]
MethodNotAllowedBody ==
    [error |-> "Method not allowed", message |-> "Only GET requests are supported"]
\* The errorResponse of the catch blocks; the timestamp is the current time.
ErrorEnvelope ==
    [error |-> "Internal server error",
     message |-> "Failed to load permission configuration",
     timestamp |-> "now"]
MethodNotAllowed == HttpResponse(405, MethodNotAllowedBody)
InternalError == HttpResponse(500, ErrorEnvelope)
Served(document) == HttpResponse(200, document)

\* What a handler did: whether it read the catalog (getPermissionConfig, or
\* the serialization of the catalog it was created with), and its outcome.
Handled(read, out) == [read |-> read, out |-> out]

\* try { ...JSON.stringify(config)... status 200 } catch { status 500 }
ServeCatalog(config) ==
    LET s == JSONStringify(config)
    IN  IF s.kind = "throw" THEN Handled(TRUE, Return(InternalError))
        ELSE Handled(TRUE, Return(Served(s.value)))

\* try { const config = getPermissionConfig(); ... } catch { status 500 }
ServeGlobalCatalog(g) ==
    LET config == getPermissionConfig(g)
    IN  IF config.kind = "throw" THEN Handled(TRUE, Return(InternalError))
        ELSE ServeCatalog(config.value)

\* A handler that keeps what getPermissionConfig gave when the handler was
\* created, before any initialization.
MutHandlerCapturesAtCreation(g, method) == ServeGlobalCatalog(NoConfig)

\* createVulturPermissionsHandler(): the request is not looked at.
VulturPermissionsHandler(g, method) == ServeGlobalCatalog(g)

\* createStaticVulturPermissionsHandler(config)
StaticVulturPermissionsHandler(config, method) == ServeCatalog(config)

\* createVulturPermissionsApiHandler(): res.status(200).json(config) serializes
\* inside the try block.
MutApiHandlerSerializesOutsideTry(g, method) ==
    IF method # "GET" THEN Handled(FALSE, Return(MethodNotAllowed))
    ELSE LET config == getPermissionConfig(g)
         IN  IF config.kind = "throw" THEN Handled(TRUE, Return(InternalError))
             ELSE LET s == JSONStringify(config.value)
                  IN  IF s.kind = "throw" THEN Handled(TRUE, s)
                      ELSE Handled(TRUE, Return(Served(s.value)))

VulturPermissionsApiHandler(g, method) ==
    IF method # "GET" THEN Handled(FALSE, Return(MethodNotAllowed))
    ELSE ServeGlobalCatalog(g)

\* createStaticVulturPermissionsApiHandler(config)
StaticVulturPermissionsApiHandler(config, method) ==
    IF method # "GET" THEN Handled(FALSE, Return(MethodNotAllowed))
    ELSE ServeCatalog(config)

Exchange(handler, method, config, h) ==
    [handler |-> handler, method |-> method, config |-> config,
     read |-> h.read, out |-> h.out]

HandlerRequest ==
    /\ \E method \in Methods :
        http' = Exchange("handler", method, globalConfig.permissions,
                         VulturPermissionsHandler(globalConfig, method))
    /\ UNCHANGED <<gw, call, globalConfig, query, lastQuery, builder, built, log, call2, localStorage, queryCache>>

StaticHandlerRequest ==
    /\ \E method \in Methods, config \in StaticCatalogs :
        http' = Exchange("staticHandler", method, config,
                         StaticVulturPermissionsHandler(config, method))
    /\ UNCHANGED <<gw, call, globalConfig, query, lastQuery, builder, built, log, call2, localStorage, queryCache>>

ApiHandlerRequest ==
    /\ \E method \in Methods :
        http' = Exchange("apiHandler", method, globalConfig.permissions,
                         VulturPermissionsApiHandler(globalConfig, method))
    /\ UNCHANGED <<gw, call, globalConfig, query, lastQuery, builder, built, log, call2, localStorage, queryCache>>

StaticApiHandlerRequest ==
    /\ \E method \in Methods, config \in StaticCatalogs :
        http' = Exchange("staticApiHandler", method, config,
                         StaticVulturPermissionsApiHandler(config, method))
    /\ UNCHANGED <<gw, call, globalConfig, query, lastQuery, builder, built, log, call2, localStorage, queryCache>>

(***************************************************************************)
(* The query cache (hooks.ts): useVulturPermissions registers its query    *)
(* under the constant key ['vultur-permissions'] with a staleTime of five  *)
(* minutes; the query function's two requests each read the token from     *)
(* localStorage when they are sent.  The identity service answers /me with *)
(* the user of the token presented, and 401 when none is presented.        *)
(***************************************************************************)
NoStoredToken == <<>>
StoredTokens == {NoStoredToken, Token1, Token2}

\* getAuthHeaders(): token ? { Authorization: `Bearer ${token}` } : {}
getAuthHeaders(token) ==
    IF token = NoStoredToken THEN NoHeader
    ELSE [present |-> TRUE, text |-> BearerPrefix \o token]

\* What the service makes of the headers of a request.
Presented(headers) ==
    IF headers.present THEN Slice(headers.text, BearerPrefixLen) ELSE NoStoredToken

NoEntry == [tag |-> "none", user |-> "", meToken |-> NoStoredToken,
            rolesToken |-> NoStoredToken]
\* The data of a run: the user /me answered, and the tokens the two requests
\* presented.
Entry(user, meToken, rolesToken) ==
    [tag |-> "data", user |-> user, meToken |-> meToken, rolesToken |-> rolesToken]

NoFetch == [pc |-> "idle", headers |-> NoHeader, user |-> "", meToken |-> NoStoredToken]
NothingReturned == [tag |-> "none", data |-> NoEntry, token |-> NoStoredToken]
EmptyCache ==
    [data |-> NoEntry, fresh |-> FALSE, fetch |-> NoFetch, returned |-> NothingReturned]

\* The query function starts: getCurrentUser sends GET /me with the headers
\* of the token stored now.
StartFetch(token) ==
    [pc |-> "me", headers |-> getAuthHeaders(token), user |-> "",
     meToken |-> NoStoredToken]

\* The login process stores a token, or the logout removes it.
StoreToken ==
    /\ \E token \in StoredTokens :
        /\ token # localStorage
        /\ localStorage' = token
    /\ UNCHANGED <<gw, call, globalConfig, query, lastQuery, builder, built, log,
                   http, call2, queryCache>>

\* A component calls useVulturPermissions(): useQuery returns the data cached
\* under the key when there is some, and runs the query function when there
\* is none or it is stale, unless a run is in flight.
UseVulturPermissions ==
    /\ LET c == queryCache
           hit == c.data.tag = "data"
           run == c.fetch.pc = "idle" /\ (~hit \/ ~c.fresh)
       IN  queryCache' =
             [c EXCEPT !.returned =
                          [tag |-> IF hit THEN "data" ELSE "pending",
                           data |-> c.data, token |-> localStorage],
                       !.fetch = IF run THEN StartFetch(localStorage) ELSE @]
    /\ UNCHANGED <<gw, call, globalConfig, query, lastQuery, builder, built, log,
                   http, call2, localStorage>>

\* GET /me answers: 401 without a token (UNAUTHORIZED is not retried, the
\* cached data stays); otherwise getUserRoles sends its request with the
\* headers of the token stored now.
CachedCurrentUserResponse ==
    /\ queryCache.fetch.pc = "me"
    /\ LET c == queryCache
           presented == Presented(c.fetch.headers)
       IN  queryCache' =
             IF presented = NoStoredToken
             THEN [c EXCEPT !.fetch = NoFetch]
             ELSE [c EXCEPT !.fetch =
                      [pc |-> "roles", headers |-> getAuthHeaders(localStorage),
                       user |-> AddressOf(presented), meToken |-> presented]]
    /\ UNCHANGED <<gw, call, globalConfig, query, lastQuery, builder, built, log,
                   http, call2, localStorage>>

\* GET /users/{address}/roles answers: 401 without a token; otherwise the run
\* succeeds and its data replaces the entry, fresh for staleTime.
CachedUserRolesResponse ==
    /\ queryCache.fetch.pc = "roles"
    /\ LET c == queryCache
           presented == Presented(c.fetch.headers)
       IN  queryCache' =
             IF presented = NoStoredToken
             THEN [c EXCEPT !.fetch = NoFetch]
             ELSE [c EXCEPT !.fetch = NoFetch, !.fresh = TRUE,
                            !.data = Entry(c.fetch.user, c.fetch.meToken, presented)]
    /\ UNCHANGED <<gw, call, globalConfig, query, lastQuery, builder, built, log,
                   http, call2, localStorage>>

\* staleTime (five minutes) passes since the data was fetched.
StaleTimeElapses ==
    /\ queryCache.data.tag = "data"
    /\ queryCache.fresh
    /\ queryCache' = [queryCache EXCEPT !.fresh = FALSE]
    /\ UNCHANGED <<gw, call, globalConfig, query, lastQuery, builder, built, log,
                   http, call2, localStorage>>

\* No builder in use, nothing configured, no discovery request served.
NoExchange == [handler |-> "none"]
QuietConfig ==
    /\ builder = NewBuilder
    /\ built = <<>>
    /\ log = <<>>
    /\ http = NoExchange
    /\ call2 = IdleCall
    /\ localStorage = NoStoredToken
    /\ queryCache = EmptyCache

(***************************************************************************)
(* Specifications.                                                         *)
(***************************************************************************)
Quiet ==
    /\ gw = NoCall
    /\ call = IdleCall
    /\ globalConfig = NoConfig
    /\ query = NewQuery(FALSE)
    /\ lastQuery = [op |-> "none"]
    /\ QuietConfig

\* The gateway client on its own: calls with every response.
InitGateway == Quiet
NextGateway ==
    \/ ValidateTokenCall
    \/ GetUserRolesCall
    \/ GetUserInfoCall
    \/ CheckUserPermissionCall
SpecGateway == InitGateway /\ [][NextGateway]_vars

\* The guards: requests served one after the other.
InitGuard == Quiet
NextGuard ==
    \/ WithAuthRequest
    \/ WithPermissionRequest
    \/ ValidateTokenResponse
    \/ CheckPermissionResponse
SpecGuard == InitGuard /\ [][NextGuard]_vars

\* The hooks: an application that did or did not initialize the client mounts
\* a component using usePermissionCheck (enabled or not).
InitHooks ==
    /\ gw = NoCall
    /\ call = IdleCall
    /\ globalConfig \in {NoConfig} \cup Configs
    /\ query \in {NewQuery(e) : e \in BOOLEAN}
    /\ lastQuery = [op |-> "none"]
    /\ QuietConfig
NextHooks ==
    \/ QueryFnStart
    \/ CurrentUserResponse
    \/ UserRolesResponse
    \/ AskHasPermission
    \/ AskHasRole
    \/ Rerender
SpecHooks == InitHooks /\ [][NextHooks]_vars

\* The five queries as functions of the query's data: no data (loading,
\* disabled, failed), or any UserPermissions value.
Entries == [scope : PermissionScopes, effect : Effects]
QueryStates ==
    {[NewQuery(e) EXCEPT !.status = s] :
        e \in BOOLEAN, s \in {"pending", "fetchingUser", "fetchingRoles"}}
    \cup {[NewQuery(TRUE) EXCEPT !.status = "error", !.error = c,
                                !.failureCount = 1] :
        c \in {"UNAUTHORIZED"}}
    \cup {[NewQuery(TRUE) EXCEPT !.status = "success",
                                !.data = UserPermissions(u, <<>>, p)] :
        u \in HookUsers, p \in SeqsUpTo(Entries, MaxEntries)}
InitQueries ==
    /\ gw = NoCall
    /\ call = IdleCall
    /\ globalConfig = NoConfig
    /\ query \in QueryStates
    /\ lastQuery = [op |-> "none"]
    /\ QuietConfig
NextQueries ==
    \/ AskHasPermission
    \/ AskHasAnyPermission
    \/ AskHasAllPermissions
    \/ AskHasRole
    \/ AskIsAdmin
    \/ Rerender
SpecQueries == InitQueries /\ [][NextQueries]_vars

(***************************************************************************)
(* Properties.                                                             *)
(***************************************************************************)
Is2xx(status) == status \in 200..299

\* The request carries a bearer token: an Authorization header the code can
\* read, made of the prefix and a non-empty token.
CarriesToken(req, tok) ==
    /\ req.shape \in {"getter", "request", "plain"}
    /\ req.header.present
    /\ req.header.text = BearerPrefix \o tok
    /\ tok # <<>>

\* A request object from which no token can be extracted.
NoTokenRequest(req) ==
    /\ req.shape # "null"
    /\ ~\E tok \in {Token1, Token2} : CarriesToken(req, tok)

HandlerInvoked(c) == \E i \in 1..Len(c.trace) : c.trace[i].ev = "handler"

ForbiddenMessage(scope) ==
    IF scope = "fleet:read" THEN "Permission 'fleet:read' required"
    ELSE "Permission 'fleet:write' required"

\* C1: the handler wrapped by withPermission is invoked only after the token
\* was extracted, validateToken succeeded for it, and the permission check
\* for (the validated user's address, the application, the required scope,
\* the same token) returned true, in this order; a false check (a 404
\* included) ends in FORBIDDEN "Permission '<scope>' required" and a request
\* without token in UNAUTHORIZED, the handler not being invoked.
C1_WithPermissionOrder ==
    call.kind = "withPermission" =>
        LET tr == call.trace
        IN  /\ \A i \in 1..Len(tr) :
                 tr[i].ev = "handler" =>
                     \E tok \in {Token1, Token2}, u \in UserInfos,
                        s1 \in Statuses, s2 \in Statuses :
                         /\ Is2xx(s1) /\ Is2xx(s2)
                         /\ CarriesToken(call.req, tok)
                         /\ tr = <<EvExtract(tok), EvValidateToken(tok),
                                   EvValidated(u, s1),
                                   EvCheck(u.eth_address, call.app, call.scope, tok),
                                   EvChecked(TRUE, s2), EvHandler(u)>>
            /\ \A i \in 1..Len(tr) :
                 /\ tr[i].ev = "checkFailed" => tr[i].status # 404
                 /\ (tr[i].ev = "checked" /\ tr[i].status = 404) => ~tr[i].result
                 /\ (tr[i].ev = "checked" /\ ~tr[i].result) =>
                        /\ call.pc = "done"
                        /\ call.outcome =
                             Throw("FORBIDDEN", ForbiddenMessage(call.scope))
                        /\ ~HandlerInvoked(call)
            /\ (call.pc # "idle" /\ NoTokenRequest(call.req)) =>
                 /\ call.pc = "done"
                 /\ call.outcome.kind = "throw"
                 /\ call.outcome.code = "UNAUTHORIZED"
                 /\ tr = <<>>

\* A withPermission call whose check was answered 404 ended FORBIDDEN.
C1_Witness ==
    /\ call.kind = "withPermission"
    /\ call.pc = "done"
    /\ \E i \in 1..Len(call.trace) :
         call.trace[i].ev = "checked" /\ call.trace[i].status = 404
    /\ call.outcome.code = "FORBIDDEN"

\* The error validateToken raises on a response of this status (0: none).
ValidateTokenError(status) ==
    IF status = 0 THEN Throw("TypeError", "fetch failed")
    ELSE IF status = 401 THEN Throw("UNAUTHORIZED", "Invalid or expired token")
    ELSE Throw("NETWORK_ERROR", "Token validation failed")

\* C2: withAuth fails UNAUTHORIZED without calling validateToken or the
\* handler when the request has no token; otherwise it calls validateToken
\* and invokes handler(user) exactly once and only if validation succeeded;
\* an error of validateToken reaches the caller unchanged, the handler not
\* being invoked.
C2_WithAuth ==
    call.kind = "withAuth" =>
        LET tr == call.trace
        IN  /\ (call.pc # "idle" /\ NoTokenRequest(call.req)) =>
                 /\ call.pc = "done"
                 /\ call.outcome = Throw("UNAUTHORIZED", "No JWT token provided")
                 /\ tr = <<>>
            /\ Cardinality({i \in 1..Len(tr) : tr[i].ev = "handler"}) <= 1
            /\ \A i \in 1..Len(tr) :
                 /\ tr[i].ev = "handler" =>
                        \E tok \in {Token1, Token2}, u \in UserInfos,
                           s \in Statuses :
                            /\ Is2xx(s)
                            /\ CarriesToken(call.req, tok)
                            /\ tr = <<EvExtract(tok), EvValidateToken(tok),
                                      EvValidated(u, s), EvHandler(u)>>
                 /\ tr[i].ev = "validated" => HandlerInvoked(call)
                 /\ tr[i].ev = "validateFailed" =>
                        /\ ~Is2xx(tr[i].status)
                        /\ call.pc = "done"
                        /\ call.outcome = ValidateTokenError(tr[i].status)
                        /\ ~HandlerInvoked(call)
            /\ (call.pc = "done" /\ \E tok \in {Token1, Token2} :
                                       CarriesToken(call.req, tok)) =>
                 \E i \in 1..Len(tr) : tr[i].ev \in {"validated", "validateFailed"}

\* A withAuth call that validateToken failed with NETWORK_ERROR.
C2_Witness ==
    /\ call.kind = "withAuth"
    /\ call.pc = "done"
    /\ call.outcome.code = "NETWORK_ERROR"
    /\ ~HandlerInvoked(call)

\* C9: checkUserPermission returns, on a 2xx response, whether the body's
\* allowed field is exactly true; on 404 it returns false; on 401 it raises
\* UNAUTHORIZED and on every other status NETWORK_ERROR; it never raises
\* NOT_FOUND.
C9_CheckUserPermissionMapping ==
    (gw.op = "checkUserPermission" /\ ~gw.resp.rejected) =>
        LET s == gw.resp.status
            o == gw.outcome
        IN  /\ Is2xx(s) => o = Return(gw.resp.body = [allowed |-> "true"])
            /\ s = 404 => o = Return(FALSE)
            /\ s = 401 => (o.kind = "throw" /\ o.code = "UNAUTHORIZED")
            /\ (~Is2xx(s) /\ s \notin {401, 404}) =>
                   (o.kind = "throw" /\ o.code = "NETWORK_ERROR")
            /\ ~(o.kind = "throw" /\ o.code = "NOT_FOUND")

\* A permission check answered 404 returned false.
C9_Witness ==
    /\ gw.op = "checkUserPermission"
    /\ ~gw.resp.rejected
    /\ gw.resp.status = 404
    /\ gw.outcome = Return(FALSE)

\* The error code each gateway call raises for a status that is not 2xx.
ExpectedCode(op, status) ==
    IF status = 401 THEN "UNAUTHORIZED"
    ELSE IF status = 403 /\ op = "getUserInfo" THEN "FORBIDDEN"
    ELSE IF status = 404 /\ op \in {"getUserRoles", "getUserInfo"} THEN "NOT_FOUND"
    ELSE "NETWORK_ERROR"

\* C10: validateToken, getUserRoles and getUserInfo return the decoded body
\* on a 2xx response and only then; on any other status they raise the one
\* typed error the status determines.
C10_GatewayStatusMapping ==
    (gw.op \in {"validateToken", "getUserRoles", "getUserInfo"}
     /\ ~gw.resp.rejected) =>
        LET s == gw.resp.status
            o == gw.outcome
        IN  /\ o.kind = "return" <=> Is2xx(s)
            /\ o.kind = "return" => o.value = gw.resp.body
            /\ o.kind = "throw" => o.code = ExpectedCode(gw.op, s)

\* getUserInfo answered 403 raised FORBIDDEN.
C10_Witness ==
    /\ gw.op = "getUserInfo"
    /\ ~gw.resp.rejected
    /\ gw.resp.status = 403
    /\ gw.outcome.kind = "throw"
    /\ gw.outcome.code = "FORBIDDEN"

Loaded == query.status = "success"
Catalog == globalConfig.permissions
ReadScope == [id |-> "fleet:read", action |-> "read"]
WriteScope == [id |-> "fleet:write", action |-> "write"]

\* The role names that contain "member" in any letter case.
MemberRoleNames == {FleetMember}

\* The role record matching a claimed name is the first one with that name.
Matches(roles, j, name) ==
    /\ roles[j].name = name
    /\ \A k \in 1..(j - 1) : roles[k].name # name
MatchIsActive(roles, name) ==
    \E j \in 1..Len(roles) : Matches(roles, j, name) /\ roles[j].is_active

\* C3: for a user with is_admin = true, resolution yields exactly one allow
\* permission per catalog scope, whatever user.roles and the role records
\* are.
C3_AdminBypass ==
    (Loaded /\ query.data.user.is_admin) =>
        query.data.permissions = [i \in 1..Len(Catalog) |-> Allow(Catalog[i])]

\* C4: for a non-admin user claiming a role whose name contains "member"
\* (in any case) and whose matching record is active, resolution yields an
\* allow entry for every catalog scope with action "read" and no entry for a
\* scope with another action; one active "Fleet Member" role against
\* <<fleet:read, fleet:write>> resolves to exactly <<allow fleet:read>>.
C4_MemberReadOnly ==
    LET u == query.data.user
        ps == query.data.permissions
    IN  (/\ Loaded
         /\ ~u.is_admin
         /\ \E k \in 1..Len(u.roles) :
              /\ u.roles[k] \in MemberRoleNames
              /\ MatchIsActive(query.data.roles, u.roles[k])) =>
            /\ \A i \in 1..Len(Catalog) :
                 Catalog[i].action = "read" =>
                     \E j \in 1..Len(ps) : ps[j] = Allow(Catalog[i])
            /\ \A j \in 1..Len(ps) :
                 ps[j].scope.action = "read" /\ ps[j].effect = "allow"
            /\ (/\ u.roles = <<FleetMember>>
                /\ Catalog = <<ReadScope, WriteScope>>) =>
                   ps = <<Allow(ReadScope)>>

\* One active "Fleet Member" role resolved against <<fleet:read, fleet:write>>.
C4_Witness ==
    /\ Loaded
    /\ ~query.data.user.is_admin
    /\ query.data.user.roles = <<FleetMember>>
    /\ query.data.roles = <<[name |-> FleetMember, is_active |-> TRUE]>>
    /\ Catalog = <<ReadScope, WriteScope>>
    /\ query.data.permissions = <<Allow(ReadScope)>>

\* C5: a claimed role with no role record, or whose matching record is
\* inactive, contributes no entry: the resolution is the one of the user
\* without those claims, and it is empty when every claim is such.
C5_InactiveRoleExclusion ==
    Loaded =>
        LET u == query.data.user
            rs == query.data.roles
            Counts(name) == MatchIsActive(rs, name)
            kept == [u EXCEPT !.roles = SelectSeq(u.roles, Counts)]
        IN  /\ query.data.permissions = resolveUserPermissions(kept, rs, globalConfig)
            /\ (\A k \in 1..Len(u.roles) : ~Counts(u.roles[k])) =>
                   query.data.permissions = <<>>

\* A user claiming one known, inactive role and one unknown role, resolved
\* against a non-empty catalog.
C5_Witness ==
    /\ Loaded
    /\ query.data.user.roles = <<FleetMember, Officer>>
    /\ query.data.roles = <<[name |-> FleetMember, is_active |-> FALSE]>>
    /\ Catalog # <<>>
    /\ query.data.permissions = <<>>

C7_HasRoleClaimBased ==
    LET u == query.data.user
    IN  /\ (Loaded /\ lastQuery.op = "hasRole") =>
              lastQuery.result = (lastQuery.name \in Range(u.roles))
        /\ (/\ Loaded
            /\ ~u.is_admin
            /\ u.roles = <<FleetMember>>
            /\ \A j \in 1..Len(query.data.roles) :
                 query.data.roles[j].name = FleetMember =>
                     ~query.data.roles[j].is_active) =>
              /\ lastQuery.op = "hasRole" =>
                     lastQuery.result = (lastQuery.name = FleetMember)
              /\ (lastQuery.op = "hasPermission" /\ lastQuery.effect = "allow") =>
                     ~lastQuery.result

\* hasRole("Fleet Member") answered true for a user whose Fleet Member role
\* is inactive.
C7_Witness ==
    /\ Loaded
    /\ query.data.user.roles = <<FleetMember>>
    /\ query.data.roles = <<[name |-> FleetMember, is_active |-> FALSE]>>
    /\ lastQuery.op = "hasRole"
    /\ lastQuery.name = FleetMember
    /\ lastQuery.result

\* C8: while the query has no data, each of the five queries answers false,
\* for every argument.
C8_NoDataAllFalse ==
    (query.data.tag = "none" /\ lastQuery.op # "none") => ~lastQuery.result

\* C11: for every request value, extractJWT returns the text after "Bearer "
\* when the Authorization header starts with that prefix, null when the header
\* is missing or lacks the prefix, and never throws.
C11_ExtractJWTTotal ==
    call.pc # "idle" =>
        LET h == call.req.header
            bearer == h.present /\ StartsWith(h.text, BearerPrefix)
        IN  /\ call.extracted.kind # "throw"
            /\ bearer =>
                    call.extracted = Extracted(Slice(h.text, BearerPrefixLen))
            /\ ~bearer => call.extracted = ExtractedNull

\* The builder: an application creates a builder and calls its methods.
InitBuilder ==
    /\ gw = NoCall
    /\ call = IdleCall
    /\ globalConfig = NoConfig
    /\ query = NewQuery(FALSE)
    /\ lastQuery = [op |-> "none"]
    /\ builder \in Builders
    /\ built = <<>>
    /\ log = <<>>
    /\ http = NoExchange
    /\ call2 = IdleCall
    /\ localStorage = NoStoredToken
    /\ queryCache = EmptyCache
NextBuilder ==
    \/ AddPermissionScope
    \/ AddDefaultPermission
    \/ Build
SpecBuilder == InitBuilder /\ [][NextBuilder]_vars

\* The scopes of the addPermissionScope calls among the first n calls, in
\* call order.
RECURSIVE AddedScopes(_, _)
AddedScopes(l, n) ==
    IF n = 0 THEN <<>>
    ELSE IF l[n].op = "addPermissionScope"
         THEN Append(AddedScopes(l, n - 1), l[n].scope)
         ELSE AddedScopes(l, n - 1)

\* The addPermissionScope calls before call n that registered the id.
AddedBefore(l, n, id) ==
    {j \in 1..(n - 1) : l[j].op = "addPermissionScope" /\ l[j].scope.id = id}

\* The entries the addDefaultPermission calls among the first n calls are to
\* leave: one per call made after a scope with its id was added, holding the
\* (first) scope added under that id and the effect, deny when omitted.
RECURSIVE DefaultsDue(_, _)
DefaultsDue(l, n) ==
    IF n = 0 THEN <<>>
    ELSE LET prior == AddedBefore(l, n, l[n].id)
         IN  IF l[n].op = "addDefaultPermission" /\ prior # {}
             THEN LET j == CHOOSE k \in prior : \A m \in prior : k <= m
                  IN  Append(DefaultsDue(l, n - 1),
                             [scope |-> l[j].scope,
                              effect |-> IF l[n].effect = "omitted" THEN "deny"
                                         ELSE l[n].effect])
             ELSE DefaultsDue(l, n - 1)

\* The catalog build() returned at position i of `built', as it is now: the
\* builder's config object.
CatalogNow(i) == builder

\* C12: no operation on the builder after build() changes the permissions or
\* defaultPermissions of a catalog build() already returned.
C12_BuiltCatalogImmutable ==
    \A i \in 1..Len(built) :
        /\ CatalogNow(i).permissions = built[i].permissions
        /\ CatalogNow(i).defaultPermissions = built[i].defaultPermissions

\* C14: build() returns a catalog only when applicationName is non-empty,
\* version is present and at least one scope was added; in particular it
\* fails on a builder on which addPermissionScope was never called.
C14_BuildRequiresScope ==
    \A i \in 1..Len(log) :
        log[i].op = "build" =>
            (log[i].out.kind = "return" <=>
                /\ builder.applicationName # ""
                /\ builder.version # ""
                /\ AddedScopes(log, i) # <<>>)

\* C15: addDefaultPermission(id, effect) fails with the scope-not-found error
\* when no scope with that id was added before the call, whatever is added
\* later; otherwise it succeeds and appends exactly one entry holding the
\* scope added before and the effect, deny when omitted.
C15_DefaultPermissionOrdering ==
    /\ \A i \in 1..Len(log) :
        log[i].op = "addDefaultPermission" =>
            IF AddedBefore(log, i, log[i].id) = {}
            THEN log[i].out = Throw("Error", NotFoundMessage(log[i].id))
            ELSE log[i].out.kind = "return"
    /\ builder.defaultPermissions = DefaultsDue(log, Len(log))

C15_Witness ==
    /\ Len(log) = 4
    /\ log[1].op = "addDefaultPermission" /\ log[1].id = "fleet:write"
    /\ log[1].out.kind = "throw"
    /\ log[2].op = "addPermissionScope" /\ log[2].scope.id = "fleet:write"
    /\ log[3].op = "addPermissionScope" /\ log[3].scope.id = "fleet:read"
    /\ log[4].op = "addDefaultPermission" /\ log[4].id = "fleet:write"
    /\ log[4].effect = "omitted"
    /\ builder.defaultPermissions = <<[scope |-> log[2].scope, effect |-> "deny"]>>

\* C16: the permissions list of the builder, and of every catalog build()
\* returns, is the list of the scopes added so far in the order of the
\* addPermissionScope calls, whatever addDefaultPermission calls are made in
\* between.
C16_InsertionOrder ==
    /\ builder.permissions = AddedScopes(log, Len(log))
    /\ \A i \in 1..Len(log) :
        (log[i].op = "build" /\ log[i].out.kind = "return") =>
            log[i].out.value.permissions = AddedScopes(log, i)

C16_Witness ==
    /\ Len(log) = 4
    /\ log[1].op = "addPermissionScope" /\ log[1].scope.id = "fleet:write"
    /\ log[2].op = "addDefaultPermission" /\ log[2].out.kind = "return"
    /\ log[3].op = "addPermissionScope" /\ log[3].scope.id = "fleet:read"
    /\ log[4].op = "build" /\ log[4].out.kind = "return"
    /\ built = <<log[4].out.value>>
    /\ built[1].permissions = <<log[1].scope, log[3].scope>>

\* C17: no catalog the builder produced has two scopes with the same id.
C17_UniqueScopeIds ==
    \A i \in 1..Len(built) :
        \A j, k \in 1..Len(built[i].permissions) :
            built[i].permissions[j].id = built[i].permissions[k].id => j = k

\* The process-wide configuration: an application initializes the client
\* (with complete and incomplete configurations) and reads the catalog.
InitConfig == Quiet
NextConfig ==
    \/ InitializeVulturSSO
    \/ GetVulturSSOConfig
    \/ GetPermissionConfig
SpecConfig == InitConfig /\ [][NextConfig]_vars

\* C13: once initializeVulturSSO has succeeded, getPermissionConfig returns
\* the same catalog in every later state, whatever calls follow.
C13_CatalogWriteOnce ==
    \A i, j \in 1..Len(log) :
        (/\ i < j
         /\ log[i].op = "getPermissionConfig" /\ log[i].out.kind = "return"
         /\ log[j].op = "getPermissionConfig" /\ log[j].out.kind = "return")
        => log[j].out.value = log[i].out.value

\* The discovery handlers of an application that did or did not initialize
\* the client, serving requests one after the other.
InitEndpoint ==
    /\ gw = NoCall
    /\ call = IdleCall
    /\ globalConfig \in EndpointConfigs
    /\ query = NewQuery(FALSE)
    /\ lastQuery = [op |-> "none"]
    /\ QuietConfig
NextEndpoint ==
    \/ HandlerRequest
    \/ StaticHandlerRequest
    \/ ApiHandlerRequest
    \/ StaticApiHandlerRequest
SpecEndpoint == InitEndpoint /\ [][NextEndpoint]_vars

\* The exchange was served by a handler reading the global configuration.
GlobalHandler == http.handler \in {"handler", "apiHandler"}

\* C18: every discovery handler invoked with a method other than GET answers
\* 405 with the method-not-allowed body, without reading the catalog and
\* without returning catalog content.
C18_MethodGuard ==
    (http.handler # "none" /\ http.method # "GET") =>
        /\ ~http.read
        /\ http.out.kind = "return"
        /\ http.out.value.status = 405
        /\ http.out.value.body = MethodNotAllowedBody

\* C19: no handler ever throws, and a GET request ends in 200 with the
\* catalog when the catalog is there and can be serialized, in 500 with the
\* static envelope when the configuration is uninitialized or the catalog
\* cannot be serialized.
C19_NeverPropagates ==
    http.handler # "none" =>
        /\ http.out.kind = "return"
        /\ http.method = "GET" =>
            LET missing == GlobalHandler /\ globalConfig.tag = "none"
                circular == \E i \in 1..Len(http.config) :
                                http.config[i] = SelfReference
            IN  IF missing \/ circular
                THEN /\ http.out.value.status = 500
                     /\ http.out.value.body.error = "Internal server error"
                     /\ http.out.value.body.message =
                            "Failed to load permission configuration"
                     /\ DOMAIN http.out.value.body =
                            {"error", "message", "timestamp"}
                ELSE /\ http.out.value.status = 200
                     /\ http.out.value.body = [json |-> http.config]

C19_Witness ==
    /\ http.handler = "apiHandler"
    /\ http.method = "GET"
    /\ globalConfig.tag = "config"
    /\ http.config = CircularCatalog
    /\ http.out.kind = "return"
    /\ http.out.value.status = 500

\* The server-side checker on its own: calls with every response.
InitChecker == Quiet
NextChecker ==
    \/ CheckerHasPermissionCall
    \/ CheckerHasRoleCall
    \/ CheckerHasAnyPermissionCall
    \/ CheckerHasAllPermissionsCall
    \/ CheckerIsAdminCall
SpecChecker == InitChecker /\ [][NextChecker]_vars

\* C20: ServerPermissionChecker.hasPermission and hasRole answer false when
\* the gateway call fails with NOT_FOUND and fail with the gateway's error,
\* unchanged, when it fails otherwise; hasRole is true iff the fetched role
\* list holds an active role of that name.
C20_CheckerSwallowsOnlyNotFound ==
    gw.op \in {"hasPermission", "hasRole"} =>
        /\ (gw.inner.kind = "throw" /\ gw.inner.code = "NOT_FOUND")
                => gw.outcome = Return(FALSE)
        /\ (gw.inner.kind = "throw" /\ gw.inner.code # "NOT_FOUND")
                => gw.outcome = gw.inner
        /\ (gw.op = "hasRole" /\ ~gw.resp.rejected /\ Is2xx(gw.resp.status))
                => gw.outcome =
                     Return(\E r \in Range(gw.resp.body) :
                                r.name = gw.roleName /\ r.is_active)
        /\ (gw.op = "hasRole" /\ ~gw.resp.rejected /\ gw.resp.status = 404)
                => gw.outcome = Return(FALSE)
        /\ (~gw.resp.rejected /\ gw.resp.status = 401)
                => (gw.outcome.kind = "throw" /\ gw.outcome.code = "UNAUTHORIZED")
        /\ (~gw.resp.rejected /\ gw.resp.status = 500)
                => (gw.outcome.kind = "throw" /\ gw.outcome.code = "NETWORK_ERROR")

C20_Witness ==
    /\ gw.op = "hasRole"
    /\ gw.roleName = FleetMember
    /\ ~gw.resp.rejected /\ gw.resp.status = 404
    /\ gw.inner.kind = "throw" /\ gw.inner.code = "NOT_FOUND"
    /\ gw.outcome = Return(FALSE)

\* C21: once a response to the permission fetch of useVulturPermissions (to
\* the current-user call or to the roles call) is a 401, the query rests in
\* error with UNAUTHORIZED: no further run of the query function is pending
\* or in flight.
C21_UnauthorizedNotRetried ==
    query.lastStatus = 401 =>
        /\ query.status = "error"
        /\ query.error = "UNAUTHORIZED"
        /\ query.data = NoData

C21_Witness ==
    /\ query.lastStatus = 401
    /\ query.status = "error"
    /\ query.error = "UNAUTHORIZED"
    /\ query.failureCount = 2

\* C22: no operation re-issues a failed identity-service request on its own:
\* once the permission fetch of useVulturPermissions has received a failure
\* response, the query rests in error and no new run of the query function is
\* pending or in flight.
C22_NoAutomaticRetry ==
    (query.lastStatus # 0 /\ ~Is2xx(query.lastStatus)) => query.status = "error"

\* A configuration with the three required fields.
Complete(config) ==
    /\ config.identApiUrl # ""
    /\ config.applicationName # ""
    /\ config.permissionConfig.present

\* The initializeVulturSSO calls with a complete configuration among the
\* first n calls.
Initializations(l, n) ==
    {j \in 1..n : l[j].op = "initializeVulturSSO" /\ Complete(l[j].config)}

\* The configuration stored after the first n calls: that of the last complete
\* initialization.
StoredAfter(l, n) ==
    LET inits == Initializations(l, n)
    IN  IF inits = {} THEN NoConfig
        ELSE LET k == CHOOSE j \in inits : \A m \in inits : m <= j
             IN  [tag |-> "config",
                  identApiUrl |-> l[k].config.identApiUrl,
                  applicationName |-> l[k].config.applicationName,
                  permissions |-> l[k].config.permissionConfig.permissions]

InitConcurrent == Quiet
NextConcurrent ==
    \/ ConcurrentRequest
    \/ ConcurrentValidateTokenResponse
    \/ ConcurrentCheckPermissionResponse
SpecConcurrent == InitConcurrent /\ [][NextConcurrent]_vars

\* The invocation c, made with token tok, ran as it does alone: it passed on
\* its own token, the address of the user validated for that token and its
\* own scope, and invoked the handler, with that user, iff its validation
\* succeeded and (withPermission) its own check returned true.
RanAlone(c, tok) ==
    LET tr == c.trace
        events(ev) == {i \in 1..Len(tr) : tr[i].ev = ev}
    IN  /\ c.pc # "idle" => c.token = tok
        /\ \A i \in 1..Len(tr) :
            /\ tr[i].ev \in {"extract", "validateToken"} => tr[i].token = tok
            /\ tr[i].ev \in {"validated", "handler"} =>
                   tr[i].user.eth_address = AddressOf(tok)
            /\ tr[i].ev = "hasPermission" =>
                   /\ tr[i].token = tok
                   /\ tr[i].addr = AddressOf(tok)
                   /\ tr[i].scope = c.scope
            /\ tr[i].ev = "handler" =>
                   \E j \in 1..(i - 1) :
                       tr[j].ev = "validated" /\ tr[j].user = tr[i].user
        /\ Cardinality(events("handler")) <= 1
        /\ c.pc = "done" =>
            (HandlerInvoked(c) <=>
                /\ events("validated") # {}
                /\ \/ c.kind = "withAuth"
                   \/ \E i \in events("checked") : tr[i].result)

\* C24: in every interleaving of two guarded requests carrying different
\* tokens, each invocation runs as it does alone and its handler receives the
\* user validated from its own token.
C24_ConcurrentRequestsIndependent ==
    /\ RanAlone(call, Token1)
    /\ RanAlone(call2, Token2)

\* Both requests were validated while the other was in flight, and each
\* handler ran with its own user.
C24_Witness ==
    /\ call.pc = "done" /\ call2.pc = "done"
    /\ call.kind = "withPermission" /\ call2.kind = "withAuth"
    /\ HandlerInvoked(call) /\ HandlerInvoked(call2)
    /\ call.user.eth_address = "0xuser"
    /\ call2.user.eth_address = "0xadmin"

\* C25: when several scopes were added under one id, a successful
\* addDefaultPermission(id) binds its entry to the first of them, and every
\* one of them stays in permissions.
C25_DuplicateIdsFirstMatch ==
    /\ \A i \in 1..Len(log) :
        (log[i].op = "addDefaultPermission" /\ log[i].out.kind = "return") =>
            LET n == Cardinality({j \in 1..i :
                        /\ log[j].op = "addDefaultPermission"
                        /\ log[j].out.kind = "return"})
                prior == AddedBefore(log, i, log[i].id)
            IN  /\ prior # {}
                /\ n <= Len(builder.defaultPermissions)
                /\ \E k \in prior :
                    /\ \A m \in prior : k <= m
                    /\ builder.defaultPermissions[n].scope = log[k].scope
    /\ \A id \in ScopeIds :
        Cardinality({j \in 1..Len(builder.permissions) :
                        builder.permissions[j].id = id})
            = Cardinality(AddedBefore(log, Len(log) + 1, id))

C25_Witness ==
    /\ Len(log) = 3
    /\ log[1].op = "addPermissionScope"
    /\ log[1].scope = [id |-> "fleet:read", action |-> "write"]
    /\ log[2].op = "addPermissionScope"
    /\ log[2].scope = [id |-> "fleet:read", action |-> "read"]
    /\ log[3].op = "addDefaultPermission" /\ log[3].id = "fleet:read"
    /\ builder.defaultPermissions =
         <<[scope |-> [id |-> "fleet:read", action |-> "write"], effect |-> "allow"]>>
    /\ Len(builder.permissions) = 2

\* The answer to a permission request: allowed, denied (false or 404), or a
\* failure.
Allowed(resp) ==
    ~resp.rejected /\ Is2xx(resp.status) /\ resp.body = [allowed |-> "true"]
Failing(resp) ==
    resp.rejected \/ (~Is2xx(resp.status) /\ resp.status # 404)

\* C26: hasAnyPermission / hasAllPermissions query the listed scopes in list
\* order up to the first deciding one (first allowed or failing scope for any,
\* first scope not allowed for all) and no further; without a failure any is
\* true iff some listed scope is allowed and all is true iff every listed
\* scope is allowed; a failure at the deciding scope is the call's error.
C26_CheckerLoopsShortCircuit ==
    gw.op \in {"hasAnyPermission", "hasAllPermissions"} =>
        LET n == Len(gw.scopes)
            deciding ==
                {i \in 1..n :
                    IF gw.op = "hasAnyPermission"
                    THEN Allowed(gw.resps[i]) \/ Failing(gw.resps[i])
                    ELSE ~Allowed(gw.resps[i])}
            d == IF deciding = {} THEN n
                 ELSE CHOOSE i \in deciding : \A j \in deciding : i <= j
        IN  /\ gw.queried = SubSeq(gw.scopes, 1, d)
            /\ IF deciding = {}
               THEN gw.outcome = Return(gw.op = "hasAllPermissions")
               ELSE IF Failing(gw.resps[d])
               THEN /\ gw.outcome.kind = "throw"
                    /\ gw.outcome.code =
                         IF gw.resps[d].rejected THEN "TypeError"
                         ELSE IF gw.resps[d].status = 401 THEN "UNAUTHORIZED"
                         ELSE "NETWORK_ERROR"
               ELSE gw.outcome = Return(gw.op = "hasAnyPermission")

\* hasAllPermissions(<<fleet:read, fleet:write>>) stopped at a denied first
\* scope although the second one's request would have failed.
C26_Witness ==
    /\ gw.op = "hasAllPermissions"
    /\ gw.scopes = <<"fleet:read", "fleet:write">>
    /\ gw.resps[1].status = 404
    /\ gw.resps[2].status = 500
    /\ gw.queried = <<"fleet:read">>
    /\ gw.outcome = Return(FALSE)

\* C27: isAdmin(address, token) answers the is_admin flag of the user the
\* token validates to, whatever the address, and false, never an error, when
\* validation fails.
C27_IsAdminSwallowsEverything ==
    gw.op = "isAdmin" =>
        IF ~gw.resp.rejected /\ Is2xx(gw.resp.status)
        THEN gw.outcome = Return(gw.resp.body.is_admin)
        ELSE gw.outcome = Return(FALSE)

C27_Witness ==
    /\ gw.op = "isAdmin"
    /\ gw.address = "0xuser"
    /\ ~gw.resp.rejected /\ gw.resp.status = 200
    /\ gw.resp.body.eth_address = "0xadmin"
    /\ gw.resp.body.is_admin
    /\ gw.outcome = Return(TRUE)


(***************************************************************************)
(* The header that is the prefix alone.                                    *)
(***************************************************************************)
\* An Authorization header that is exactly 'Bearer ', on a request shape
\* whose header extractJWT reads.
EmptyBearer(req) ==
    /\ req.shape \in {"getter", "request", "plain"}
    /\ req.header.present
    /\ req.header.text = BearerPrefix

\* C28: a withAuth or withPermission call whose request carries the header
\* 'Bearer ' with nothing after it extracts the empty string, and ends at
\* once with UNAUTHORIZED 'No JWT token provided': no validateToken, no
\* permission check and no handler invocation appear in its trace.
C28_EmptyBearerIsNoToken ==
    (call.pc # "idle" /\ EmptyBearer(call.req)) =>
        /\ call.extracted = Extracted(<<>>)
        /\ call.pc = "done"
        /\ call.outcome = Throw("UNAUTHORIZED", "No JWT token provided")
        /\ \A i \in 1..Len(call.trace) :
              call.trace[i].ev \notin {"validateToken", "check", "handler"}
        /\ call.trace = <<>>

\* A withPermission call on a Pages Router request with the bare prefix ended.
C28_Witness ==
    /\ call.kind = "withPermission"
    /\ call.req.shape = "plain"
    /\ EmptyBearer(call.req)
    /\ call.extracted = Extracted(<<>>)
    /\ call.pc = "done"

(***************************************************************************)
(* The global discovery handlers of an application that creates them       *)
(* before it initializes the client, and initializes it any number of      *)
(* times while requests are served.                                        *)
(***************************************************************************)
InitDiscovery == Quiet
NextDiscovery ==
    \/ InitializeVulturSSO
    \/ HandlerRequest
    \/ ApiHandlerRequest
SpecDiscovery == InitDiscovery /\ [][NextDiscovery]_vars

InitCache == Quiet
NextCache ==
    \/ StoreToken
    \/ UseVulturPermissions
    \/ CachedCurrentUserResponse
    \/ CachedUserRolesResponse
    \/ StaleTimeElapses
SpecCache == InitCache /\ [][NextCache]_vars

\* C30: the data a call of useVulturPermissions returns was fetched with the
\* token stored at the time of the call: both requests of the run that
\* produced it presented that token.
C30_NeverAcrossIdentities ==
    queryCache.returned.tag = "data" =>
        /\ queryCache.returned.data.meToken = queryCache.returned.token
        /\ queryCache.returned.data.rolesToken = queryCache.returned.token
====
